---------------------------- MODULE Spec2Model ----------------------------
(***************************************************************************)
(* Jo-diff aggregation of the data-impact scripts: di_conv.py (analyze_conv),*)
(* di_conv_uv.py (analyze_conv_uv), di_sate.py (analyze_sate) and the       *)
(* shared writers of di_common.py.  One run of one script is one behaviour: *)
(* the sensor loop, the observation loop of each sensor, the per-sensor     *)
(* outputs and the summary record.                                          *)
(*                                                                          *)
(* Floating-point values are exact rationals [nan, num, den] (den > 0, in   *)
(* lowest terms) plus NaN, which propagates through arithmetic and compares *)
(* false to everything, as an IEEE NaN does.                                *)
(***************************************************************************)
EXTENDS Integers, Sequences, FiniteSets, TLC

(* ------------------------------ bounds --------------------------------- *)
\* number of sensors of a script's sensor list that are modelled (a prefix)
MaxSensors == 2
\* rows of all the diagnostic tables a run reads, taken together
MaxRows == 2
\* length of the Jo-diff samples handed to compute_bins on its own
MaxSample == 3
\* cycles of datestr_list that are modelled (a prefix of its 138 cycles)
MaxCycles == 3
\* values of one sensor in the runs that exercise the warning limit
MaxWarnVals == 11

(* --------------------------- float arithmetic -------------------------- *)
RECURSIVE GCD(_, _)
GCD(a, b) == IF b = 0 THEN a ELSE GCD(b, a % b)

AbsInt(x) == IF x < 0 THEN -x ELSE x

NaN == [nan |-> TRUE, num |-> 0, den |-> 1]

\* the float n/d, d > 0
Rat(n, d) ==
    LET g == GCD(AbsInt(n), d)
    IN  [nan |-> FALSE, num |-> n \div g, den |-> d \div g]

Num(n) == Rat(n, 1)

IsNaN(a) == a.nan

FAdd(a, b) ==
    IF a.nan \/ b.nan THEN NaN
    ELSE Rat(a.num * b.den + b.num * a.den, a.den * b.den)

FSub(a, b) ==
    IF a.nan \/ b.nan THEN NaN
    ELSE Rat(a.num * b.den - b.num * a.den, a.den * b.den)

FMul(a, b) ==
    IF a.nan \/ b.nan THEN NaN
    ELSE Rat(a.num * b.num, a.den * b.den)

FSq(a) == FMul(a, a)

\* a / b on numpy floats: x / 0 is +-inf (den = 0), 0 / 0 is NaN
FDiv(a, b) ==
    IF a.nan \/ b.nan \/ (a.num = 0 /\ b.num = 0) THEN NaN
    ELSE IF b.num = 0
         THEN [nan |-> FALSE, num |-> IF a.num > 0 THEN 1 ELSE -1, den |-> 0]
         ELSE IF b.num > 0 THEN Rat(a.num * b.den, a.den * b.num)
              ELSE Rat(-(a.num * b.den), a.den * (-b.num))

FAbs(a) == IF a.nan THEN NaN ELSE Rat(AbsInt(a.num), a.den)

\* a > b, a == b, a != b on floats; any comparison with NaN but != is false
FGt(a, b) == ~a.nan /\ ~b.nan /\ a.num * b.den > b.num * a.den
FEq(a, b) == ~a.nan /\ ~b.nan /\ a.num * b.den = b.num * a.den
FNe(a, b) == ~FEq(a, b)

\* int(x): truncation toward zero
PyInt(a) ==
    IF a.num >= 0 THEN a.num \div a.den ELSE -((-a.num) \div a.den)

RECURSIVE NpSum(_)
NpSum(s) == IF Len(s) = 0 THEN Num(0)
            ELSE FAdd(NpSum(SubSeq(s, 1, Len(s) - 1)), s[Len(s)])

\* np.mean: NaN for an empty list
NpMean(s) ==
    LET t == NpSum(s)
    IN  IF t.nan \/ Len(s) = 0 THEN NaN ELSE Rat(t.num, t.den * Len(s))

\* np.max(np.abs(s)) of a non-empty list: NaN if any entry is NaN
RECURSIVE NpMaxAbs(_)
NpMaxAbs(s) ==
    IF Len(s) = 1 THEN FAbs(s[1])
    ELSE LET m == NpMaxAbs(SubSeq(s, 1, Len(s) - 1))
             x == FAbs(s[Len(s)])
         IN  IF m.nan \/ x.nan THEN NaN
             ELSE IF FGt(x, m) THEN x ELSE m

\* mutant: np.ones
NpOnes(n) == [k \in 1..n |-> Num(1)]

\* np.zeros(n)
NpZeros(n) == [k \in 1..n |-> Num(0)]

(* ------------------------- program constants --------------------------- *)
Min(a, b) == IF a < b THEN a ELSE b
Prefix(s) == SubSeq(s, 1, Min(MaxSensors, Len(s)))

ConvSensors ==
    <<"conv_fed", "conv_ps", "conv_pw", "conv_q", "conv_rw", "conv_sst", "conv_t">>
ConvUvSensors == <<"conv_uv">>
SateSensors ==
    <<"abi_g16", "abi_g18", "amsua_metop-b", "amsua_metop-c", "amsua_n15",
      "amsua_n18", "amsua_n19", "atms_n20", "atms_n21", "atms_npp",
      "cris-fsr_n20", "cris-fsr_n21", "iasi_metop-b", "iasi_metop-c",
      "mhs_metop-b", "mhs_metop-c", "mhs_n19", "ssmis_f17">>

Families == {"conv", "conv_uv", "sate"}

\* sensor_types of the script
SensorTypes(fam) ==
    IF fam = "conv" THEN Prefix(ConvSensors)
    ELSE IF fam = "conv_uv" THEN Prefix(ConvUvSensors)
    ELSE Prefix(SateSensors)

\* abs(jo_diff) > 25
OutlierLimit == 25
warn_sample_limit == 10

(* ------------------------------- inputs -------------------------------- *)
\* residuals and inverse errors of the rows: with inv_err = 0.5 they give the
\* Jo-diff values 0, 0.75, -30, -29.25 (and 30 for the v component)
GesOmfVals == {Num(1), Num(11)}
AnlOmfVals == {Num(1), Num(2)}
GesVOmfVals == {Num(1)}
AnlVOmfVals == {Num(1), Num(11)}
InvErrVals == {Num(0), NaN, Rat(1, 2)}
FlagVals == {Num(0), Num(1)}
DomainExprs == {"True", "False", "anl_latitude > 0"}

\* location and identity fields of row i of a table
LatOf(i) == IF i % 2 = 0 THEN Num(40) ELSE Num(-10)
LonOf(i) == Num(200 + i)
PressOf(i) == Num(1000 - 100 * i)
ObsTypeOf(i) == 120 + i
ChannelOf(i) == i + 1

NoRow == [flag |-> Num(0), omf |-> Num(0), v_omf |-> Num(0), errinv |-> Num(0),
          latitude |-> Num(0), longitude |-> Num(0), pressure |-> Num(0),
          obstype |-> 0, channel |-> 0]

\* the rows a table can hold at index i; v_omf varies for the vector family only
GesRows(fam, i) ==
    { [flag |-> f, omf |-> o, v_omf |-> v, errinv |-> Num(1),
       latitude |-> LatOf(i), longitude |-> LonOf(i), pressure |-> PressOf(i),
       obstype |-> ObsTypeOf(i), channel |-> ChannelOf(i)] :
      f \in FlagVals, o \in GesOmfVals,
      v \in IF fam = "conv_uv" THEN GesVOmfVals ELSE {Num(0)} }

AnlRows(fam, i) ==
    { [flag |-> f, omf |-> o, v_omf |-> v, errinv |-> e,
       latitude |-> LatOf(i), longitude |-> LonOf(i), pressure |-> PressOf(i),
       obstype |-> ObsTypeOf(i), channel |-> ChannelOf(i)] :
      f \in FlagVals, o \in AnlOmfVals, e \in InvErrVals,
      v \in IF fam = "conv_uv" THEN AnlVOmfVals ELSE {Num(0)} }

\* mutant: the truth value of the (non-empty) string, not of the expression
EvalDomainTruthy(expr, anl_latitude, anl_longitude) == expr # ""

\* eval(domain_str, {"anl_latitude": ..., "anl_longitude": ...})
EvalDomain(expr, anl_latitude, anl_longitude) ==
    IF expr = "True" THEN TRUE
    ELSE IF expr = "False" THEN FALSE
    ELSE FGt(anl_latitude, Num(0))

\* mutant: the two residuals exchanged
JoDiffSwapped(anl_omf, ges_omf, inv_err) ==
    FMul(FSub(FSq(ges_omf), FSq(anl_omf)), FSq(inv_err))

\* jo_diff = (anl_omf ** 2 - ges_omf ** 2) * (inv_err ** 2)
JoDiff(anl_omf, ges_omf, inv_err) ==
    FMul(FSub(FSq(anl_omf), FSq(ges_omf)), FSq(inv_err))


(* ------------------------- per-observation rules ------------------------ *)
\* mutant: only the analysis row's flag is tested
RetainConvAnlOnly(g, a, dom) ==
    /\ ~FEq(a.errinv, Num(0))
    /\ ~(PyInt(a.flag) # 1)
    /\ EvalDomain(dom, a.latitude, a.longitude)

\* di_conv.py / di_conv_uv.py: the three `continue` tests of the loop body
RetainConv(g, a, dom) ==
    /\ ~FEq(a.errinv, Num(0))
    /\ ~(PyInt(g.flag) # 1 \/ PyInt(a.flag) # 1)
    /\ EvalDomain(dom, a.latitude, a.longitude)

\* di_sate.py: the two `continue` tests and the QC test around the appends
RetainSate(g, a, dom) ==
    /\ ~(IsNaN(a.errinv) \/ FEq(a.errinv, Num(0)))
    /\ EvalDomain(dom, a.latitude, a.longitude)
    /\ PyInt(g.flag) = 0 /\ PyInt(a.flag) = 0 /\ FNe(a.errinv, Num(0))

\* if abs(jo_diff) > 25: count_large += 1
LargeInc(jo) == IF FGt(FAbs(jo), Num(OutlierLimit)) THEN 1 ELSE 0

\* mutant: an independent `if jo_diff <= 0`
ZeroIncIndependent(jo) ==
    IF FGt(Num(0), jo) \/ FEq(jo, Num(0)) THEN 1 ELSE 0

\* elif jo_diff == 0: count_zero += 1
ZeroInc(jo) == IF LargeInc(jo) = 0 /\ FEq(jo, Num(0)) THEN 1 ELSE 0

\* mutant: count_assim >= 0
HasAssimOrEmpty(count) == count >= 0

\* if count_assim > 0: the guard of the per-sensor outputs and statistics
HasAssim(count) == count > 0

\* mutant: one entry per record
Once(x) == <<x>>

\* di_conv_uv.py: lst.extend([x, x]), one entry per wind component
Twice(x) == <<x, x>>

\* final_total_size[ss]: len(data_anl); total_count = len(data_ges) * 2 for conv_uv
TotalSize(fam, n) == IF fam = "conv_uv" THEN n * 2 ELSE n

\* compute_bins / the annotations of plot_jo_histogram raise on a NaN sample
\* (np.arange over NaN limits) and on an empty one (np.max of an empty array)
PlotRaises(jo) == Len(jo) = 0 \/ \E k \in 1..Len(jo) : IsNaN(jo[k])

(* ---------------------------- histogram bins ---------------------------- *)
\* np.min / np.max of a non-empty list; NaN if any entry is NaN
RECURSIVE NpMin(_)
NpMin(s) ==
    IF Len(s) = 1 THEN s[1]
    ELSE LET m == NpMin(SubSeq(s, 1, Len(s) - 1))
             x == s[Len(s)]
         IN  IF m.nan \/ x.nan THEN NaN ELSE IF FGt(m, x) THEN x ELSE m

RECURSIVE NpMax(_)
NpMax(s) ==
    IF Len(s) = 1 THEN s[1]
    ELSE LET m == NpMax(SubSeq(s, 1, Len(s) - 1))
             x == s[Len(s)]
         IN  IF m.nan \/ x.nan THEN NaN ELSE IF FGt(x, m) THEN x ELSE m

\* sum of the squared deviations from the mean
RECURSIVE SqDevSum(_, _)
SqDevSum(s, mean) ==
    IF Len(s) = 0 THEN Num(0)
    ELSE FAdd(SqDevSum(SubSeq(s, 1, Len(s) - 1), mean),
              FSq(FSub(s[Len(s)], mean)))

\* np.std(s) ** 2, the population variance; the standard deviation itself is
\* irrational in general, so the model carries its square
NpStdSq(s) ==
    LET t == SqDevSum(s, NpMean(s))
    IN  IF t.nan THEN NaN ELSE Rat(t.num, t.den * Len(s))

\* mutant: the stop value is included, as np.linspace does
RECURSIVE ArangeLenInclusive(_, _, _)
ArangeLenInclusive(span_sq, step_sq, n) ==
    IF FGt(FMul(Num(n * n), step_sq), span_sq) THEN n
    ELSE ArangeLenInclusive(span_sq, step_sq, n + 1)

\* len(np.arange(start, stop, step)) = ceil((stop - start) / step), from the
\* squares of span = stop - start >= 0 and step > 0: the least n >= n0 with
\* n * step >= span
RECURSIVE ArangeLen(_, _, _)
ArangeLen(span_sq, step_sq, n) ==
    IF ~FGt(span_sq, FMul(Num(n * n), step_sq)) THEN n
    ELSE ArangeLen(span_sq, step_sq, n + 1)

\* np.arange(-stop, stop, step) with stop = sqrt(stop_sq) >= 0 and
\* step = sqrt(step_sq) > 0: the edges are -stop + k * step, k = 0 .. len - 1.
\* `stats` names the statistics of the sample that were evaluated.
Arange(stop_sq, step_sq, stats) ==
    [raised |-> FALSE, stop_sq |-> stop_sq, step_sq |-> step_sq,
     len |-> ArangeLen(FMul(Num(4), stop_sq), step_sq, 0), stats |-> stats]

\* np.arange over NaN limits: ValueError
ArangeRaises(stats) ==
    [raised |-> TRUE, stop_sq |-> NaN, step_sq |-> NaN, len |-> 0,
     stats |-> stats]

\* compute_bins(jo_diffs)
compute_bins(jo) ==
    IF Len(jo) = 0 THEN Arange(Num(1), Rat(1, 100), {})
    ELSE LET n == Len(jo)
             std_sq == NpStdSq(jo)
             mx == NpMax(jo)
             mn == NpMin(jo)
             \* binsize = (mx - mn) / np.sqrt(n), squared
             range_sq == FSq(FSub(mx, mn))
             binsize_sq == IF range_sq.nan THEN NaN
                           ELSE Rat(range_sq.num, range_sq.den * n)
             \* if binsize <= 0: binsize = 0.1   (False for NaN)
             step_sq == IF ~binsize_sq.nan /\ ~FGt(binsize_sq, Num(0))
                        THEN Rat(1, 100) ELSE binsize_sq
         IN  IF std_sq.nan \/ step_sq.nan
             THEN ArangeRaises({"std", "max", "min"})
             ELSE Arange(FMul(Num(16), std_sq), step_sq, {"std", "max", "min"})

\* the value of bin_edges before compute_bins has returned
NoBins == [raised |-> FALSE, stop_sq |-> Num(0), step_sq |-> Num(0), len |-> 0,
           stats |-> {"pending"}]

\* the samples handed to compute_bins
SampleVals == {Num(-30), Num(0), Rat(3, 4), NaN}
Samples == UNION { [1..n -> SampleVals] : n \in 0..MaxSample }

(* ------------------------- post-processor inputs ------------------------ *)
\* len_data_type, len_sate_data, len_conv_data = 26, 18, 8
len_data_type == 26
len_sate_data == 18
len_conv_data == 8
\* ir_index = [0, 1, 10, 11, 12, 13], as 1-based positions
ir_index == <<1, 2, 11, 12, 13, 14>>

\* datestr_list, its cycles numbered from 1
datestr_list == [k \in 1..MaxCycles |-> k]

Labels == {"sate", "conv", "conv_uv"}

\* the full sensor list of the script that writes the label's summary record
FullSensors(label) ==
    IF label = "sate" THEN SateSensors
    ELSE IF label = "conv" THEN ConvSensors ELSE ConvUvSensors

\* the arrays a script hands to save_legacy_pickle in a cycle of level v:
\* all zero for v = 0, and distinct per field, label and sensor otherwise
Fields == {"total_size", "assim_size", "mean_jo", "sum_jo", "max_abs_jo"}
FieldBase(field) ==
    IF field = "total_size" THEN 5000
    ELSE IF field = "assim_size" THEN 3000
    ELSE IF field = "mean_jo" THEN -40
    ELSE IF field = "sum_jo" THEN -700
    ELSE 900
LabelBase(label) ==
    IF label = "sate" THEN 0 ELSE IF label = "conv" THEN 100 ELSE 200
CycleLevels == {0, 1, 2}
FinalArray(field, label, v) ==
    [k \in 1..Len(FullSensors(label)) |->
       Num(v * (FieldBase(field) + LabelBase(label) + k))]

(* ------------------------------- state --------------------------------- *)
VARIABLES
    family,          \* which script runs: "conv", "conv_uv", "sate"
    domain_str,      \* the domain filter expression
    save_detail,     \* save_detail (save_channel_info in analyze_sate)
    dirs,            \* output directories that exist
    pc,              \* "sensor", "obs", "done", "failed"
    err,             \* the exception that ended the run, "none" otherwise
    ss,              \* index of the sensor loop (0-based)
    i,               \* index of the observation loop (0-based)
    len_data,        \* len(data_anl) = len(data_ges) of the current sensor
    rows_read,       \* rows of the tables loaded so far
    ges, anl,        \* the row pair read by the current iteration (NoRow
                     \* outside the observation loop)
    jo_diffs, inv_obs_errors,
    sensor_lat, sensor_lon, sensor_press, sensor_obstype,
    list_channel,
    count_assim, count_large, count_zero,
    printed_large, printed_zero,   \* sample warnings printed for this sensor
    final_total_size, final_assim_size, final_mean_jo_diff,
    final_sum_jo_diff, final_max_abs_jo_diff,
    ges_missing,     \* sensors whose guess file os.path.exists found absent
    warned,          \* sensors reported by "[WARN] Missing file"
    loaded,          \* sensors whose diagnostics were loaded
    assim_sensors,   \* sensors whose observation loop retained an observation
    stat_lens,       \* lengths of the lists np.mean/np.sum/np.max were applied to
    figures,         \* histograms written, with their annotations
    detail_files,    \* detail records written under pickle_detail/
    channel_files,   \* channel-metadata files written under ./pickle
    legacy_pickle,   \* the summary record written, <<>> before
    n_saves,         \* calls of save_legacy_pickle that wrote
    tables,          \* the diagnostics read so far, per sensor (kept while
                     \* recording)
    recording,       \* whether the diagnostics read are kept for a second run
    run,             \* 1, and 2 in the second run on the same diagnostics
    prev,            \* what the first run left, NoOutcome before it ended
    bin_input,       \* the sample handed to compute_bins
    bin_edges,       \* what compute_bins returned, NoBins before
    mode,            \* generate_data_impact_figures.py: "each", "total", "both"
    post_pc,         \* "idle", "cycles", "done", "failed"
    post_err,        \* the exception that ended the post-processor
    cyc,             \* cycles of datestr_list the loop has passed
    processed,       \* contents of the cycles that were read, in order
    sensor_type,     \* the concatenated sensor list, <<>> while unbound
    conv_total_sum, conv_total_assim,
    alltime_sum_jo_diff, alltime_assim_size,
    alltime_sate_sum_jo_diff, alltime_sate_ir_sum_jo_diff,
    alltime_conv_sum_jo_diff,
    alltime_sate_assim_size, alltime_sate_ir_assim_size,
    alltime_conv_assim_size,
    cycle_figs,      \* the per-cycle figures written
    total_fig,       \* the cycle-averaged figure, <<>> before it is written
    HAS_CARTOPY,     \* plot_conv_spatial_detail.py: whether cartopy was imported
    start_cycle, end_cycle,   \* sys.argv[1], sys.argv[2] as digit strings
    pickle_detail,   \* the *.pkl files in pickle_detail/
    plot_pc,         \* "idle", "start", "files", "done", "exited", "failed"
    valid_cycles,    \* cycle_range(start_cycle, end_cycle)
    pkl_files,       \* sorted(glob.glob("pickle_detail/*.pkl"))
    file_idx,        \* files of pkl_files the loop has passed
    count,           \* files plotted, as main counts them
    plotted          \* the files plot_spatial_distribution saved a map of, in order

acc == <<jo_diffs, inv_obs_errors, sensor_lat, sensor_lon, sensor_press,
         sensor_obstype, list_channel, count_assim, count_large, count_zero,
         printed_large, printed_zero>>
finals == <<final_total_size, final_assim_size, final_mean_jo_diff,
            final_sum_jo_diff, final_max_abs_jo_diff>>
config == <<family, domain_str, save_detail>>
outputs == <<figures, detail_files, channel_files, legacy_pickle, n_saves>>
hist == <<ges_missing, warned, loaded, assim_sensors>>
\* state of one run of an analysis script
runvars == <<config, dirs, pc, err, ss, i, len_data, rows_read, ges, anl, acc,
             finals, hist, stat_lens, outputs, tables>>
\* state of the second run on the same diagnostics
rerun == <<recording, run, prev>>
\* state of compute_bins applied on its own
binvars == <<bin_input, bin_edges>>
\* state of the cross-cycle post-processor
alltime == <<alltime_sum_jo_diff, alltime_assim_size, alltime_sate_sum_jo_diff,
             alltime_sate_ir_sum_jo_diff, alltime_conv_sum_jo_diff,
             alltime_sate_assim_size, alltime_sate_ir_assim_size,
             alltime_conv_assim_size>>
postvars == <<mode, post_pc, post_err, cyc, processed, sensor_type,
              conv_total_sum, conv_total_assim, alltime, cycle_figs, total_fig>>
\* state of the spatial-detail plotter
plotvars == <<HAS_CARTOPY, start_cycle, end_cycle, pickle_detail, plot_pc,
              valid_cycles, pkl_files, file_idx, count, plotted>>
\* what a run of an analysis script leaves alone
other == <<binvars, postvars, rerun, plotvars>>
vars == <<runvars, other>>

n_sensor == Len(SensorTypes(family))
sensor == SensorTypes(family)[ss + 1]

\* what a run has left when it ends
Outcome ==
    [pc |-> pc, err |-> err, legacy_pickle |-> legacy_pickle,
     figures |-> figures, detail_files |-> detail_files,
     channel_files |-> channel_files]
NoOutcome ==
    [pc |-> "none", err |-> "none", legacy_pickle |-> <<>>,
     figures |-> {}, detail_files |-> {}, channel_files |-> {}]

\* the files found for a sensor, and the row pairs read from them
NotedSensor(status) ==
    IF recording THEN Append(tables, [status |-> status, rows |-> <<>>])
    ELSE tables
NotedRow(g, a) ==
    IF recording
    THEN [tables EXCEPT ![Len(tables)].rows = Append(@, <<g, a>>)]
    ELSE tables

\* no second run is planned
RerunIdle ==
    recording = FALSE /\ tables = <<>> /\ run = 1 /\ prev = NoOutcome

RunInit ==
    /\ family \in Families
    /\ domain_str \in DomainExprs
    /\ save_detail \in BOOLEAN
    \* ./figures and ./pickle are created before every use; pickle_detail is
    \* used by the conventional scripts when save_detail is set
    /\ dirs \in IF save_detail /\ family # "sate"
                THEN SUBSET {"pickle_detail"} ELSE {{}}
    /\ pc = "sensor" /\ err = "none"
    /\ ss = 0 /\ i = 0 /\ len_data = 0 /\ rows_read = 0
    /\ ges = NoRow /\ anl = NoRow
    /\ jo_diffs = <<>> /\ inv_obs_errors = <<>>
    /\ sensor_lat = <<>> /\ sensor_lon = <<>>
    /\ sensor_press = <<>> /\ sensor_obstype = <<>>
    /\ list_channel = <<>>
    /\ count_assim = 0 /\ count_large = 0 /\ count_zero = 0
    /\ printed_large = 0 /\ printed_zero = 0
    /\ final_total_size = NpZeros(n_sensor)
    /\ final_assim_size = NpZeros(n_sensor)
    /\ final_mean_jo_diff = NpZeros(n_sensor)
    /\ final_sum_jo_diff = NpZeros(n_sensor)
    /\ final_max_abs_jo_diff = NpZeros(n_sensor)
    /\ ges_missing = {} /\ warned = {} /\ loaded = {} /\ assim_sensors = {}
    /\ stat_lens = {}
    /\ figures = {} /\ detail_files = {} /\ channel_files = {}
    /\ legacy_pickle = <<>> /\ n_saves = 0

\* compute_bins is not being applied on its own
BinsIdle == bin_input = <<>> /\ bin_edges = NoBins

\* generate_data_impact_figures.py main(): the accumulators before the loop
PostArrays ==
    /\ alltime_sum_jo_diff = NpZeros(len_data_type)
    /\ alltime_assim_size = NpZeros(len_data_type)
    /\ alltime_sate_sum_jo_diff = NpZeros(len_sate_data)
    /\ alltime_sate_ir_sum_jo_diff = NpZeros(Len(ir_index))
    /\ alltime_conv_sum_jo_diff = NpZeros(len_conv_data)
    /\ alltime_sate_assim_size = NpZeros(len_sate_data)
    /\ alltime_sate_ir_assim_size = NpZeros(Len(ir_index))
    /\ alltime_conv_assim_size = NpZeros(len_conv_data)
    /\ cyc = 0 /\ processed = <<>> /\ sensor_type = <<>>
    /\ conv_total_sum = <<>> /\ conv_total_assim = <<>>
    /\ cycle_figs = {} /\ total_fig = <<>>
    /\ post_err = "none"

\* the post-processor is not running
PostIdle == PostArrays /\ mode = "both" /\ post_pc = "idle"

\* the spatial-detail plotter is not running
PlotIdle ==
    /\ HAS_CARTOPY = TRUE /\ start_cycle = <<>> /\ end_cycle = <<>>
    /\ pickle_detail = {} /\ plot_pc = "idle"
    /\ valid_cycles = {} /\ pkl_files = <<>> /\ file_idx = 0 /\ count = 0
    /\ plotted = <<>>

Init == RunInit /\ RerunIdle /\ BinsIdle /\ PostIdle /\ PlotIdle

(* ----------------------------- sensor loop ------------------------------ *)
\* mutant: `break` in place of `continue`
SkipMissingBreak ==
    /\ pc = "sensor" /\ ss < n_sensor
    /\ ges_missing' = ges_missing \cup {sensor}
    /\ warned' = warned \cup {sensor}
    /\ ss' = n_sensor
    /\ tables' = NotedSensor("ges_missing")
    /\ UNCHANGED <<other, config, dirs, pc, err, i, len_data, rows_read, ges, anl, acc,
                   finals, loaded, assim_sensors, stat_lens, outputs>>

\* if not os.path.exists(diag_ges_path): print("[WARN] Missing file ..."); continue
SkipMissing ==
    /\ pc = "sensor" /\ ss < n_sensor
    /\ ges_missing' = ges_missing \cup {sensor}
    /\ warned' = warned \cup {sensor}
    /\ ss' = ss + 1
    /\ tables' = NotedSensor("ges_missing")
    /\ UNCHANGED <<other, config, dirs, pc, err, i, len_data, rows_read, ges, anl, acc,
                   finals, loaded, assim_sensors, stat_lens, outputs>>

\* the guess file exists, the analysis file does not: the reader raises
LoadMissingAnl ==
    /\ pc = "sensor" /\ ss < n_sensor
    /\ pc' = "failed" /\ err' = "FileNotFoundError:diag_anl"
    /\ tables' = NotedSensor("anl_missing")
    /\ UNCHANGED <<other, config, dirs, ss, i, len_data, rows_read, ges, anl, acc,
                   finals, hist, stat_lens, outputs>>

\* mutant: the accumulators are not reset for the new sensor
LoadRowsKeep(limit) ==
    /\ pc = "sensor" /\ ss < n_sensor
    /\ \E n \in 0..limit :
         len_data' = n /\ rows_read' = rows_read + n
    /\ loaded' = loaded \cup {sensor}
    /\ pc' = "obs" /\ i' = 0
    /\ UNCHANGED acc
    /\ tables' = NotedSensor("ok")
    /\ UNCHANGED <<other, config, dirs, err, ss, ges, anl, finals, ges_missing, warned,
                   assim_sensors, stat_lens, outputs>>

\* both files exist: load tables of at most `limit` rows and reset the
\* accumulators
LoadRows(limit) ==
    /\ pc = "sensor" /\ ss < n_sensor
    /\ \E n \in 0..limit :
         len_data' = n /\ rows_read' = rows_read + n
    /\ loaded' = loaded \cup {sensor}
    /\ pc' = "obs" /\ i' = 0
    /\ jo_diffs' = <<>> /\ inv_obs_errors' = <<>>
    /\ sensor_lat' = <<>> /\ sensor_lon' = <<>>
    /\ sensor_press' = <<>> /\ sensor_obstype' = <<>>
    /\ list_channel' = <<>>
    /\ count_assim' = 0 /\ count_large' = 0 /\ count_zero' = 0
    /\ printed_large' = 0 /\ printed_zero' = 0
    /\ tables' = NotedSensor("ok")
    /\ UNCHANGED <<other, config, dirs, err, ss, ges, anl, finals, ges_missing, warned,
                   assim_sensors, stat_lens, outputs>>

Load == LoadRows(MaxRows - rows_read)


(* --------------------------- observation loop --------------------------- *)
\* mutant: no limit on the sample warnings
PrintedAlways(count_before, inc) == inc

\* a sample warning is printed while the counter is within warn_sample_limit
Printed(count_before, inc) ==
    IF inc = 1 /\ count_before + 1 <= warn_sample_limit THEN 1 ELSE 0

\* di_conv.py: one iteration of `for i in range(len(data_anl))`
ObsConv ==
    /\ pc = "obs" /\ family = "conv" /\ i < len_data
    /\ \E g \in GesRows(family, i), a \in AnlRows(family, i) :
         LET jo_diff == JoDiff(a.omf, g.omf, a.errinv)
         IN  /\ ges' = g /\ anl' = a
             /\ tables' = NotedRow(g, a)
             /\ IF RetainConv(g, a, domain_str)
                THEN /\ jo_diffs' = Append(jo_diffs, jo_diff)
                     /\ inv_obs_errors' = Append(inv_obs_errors, a.errinv)
                     /\ count_assim' = count_assim + 1
                     /\ sensor_lat' = Append(sensor_lat, a.latitude)
                     /\ sensor_lon' = Append(sensor_lon, a.longitude)
                     /\ sensor_press' = Append(sensor_press, a.pressure)
                     /\ sensor_obstype' = Append(sensor_obstype, a.obstype)
                     /\ count_large' = count_large + LargeInc(jo_diff)
                     /\ printed_large' =
                          printed_large + Printed(count_large, LargeInc(jo_diff))
                     /\ count_zero' = count_zero + ZeroInc(jo_diff)
                     /\ printed_zero' =
                          printed_zero + Printed(count_zero, ZeroInc(jo_diff))
                     /\ UNCHANGED list_channel
                ELSE UNCHANGED acc
    /\ i' = i + 1
    /\ UNCHANGED <<other, config, dirs, pc, err, ss, len_data, rows_read, finals, hist,
                   stat_lens, outputs>>

\* di_conv_uv.py: one iteration; two values per retained record
ObsConvUv ==
    /\ pc = "obs" /\ family = "conv_uv" /\ i < len_data
    /\ \E g \in GesRows(family, i), a \in AnlRows(family, i) :
         LET jo_diff_u == JoDiff(a.omf, g.omf, a.errinv)
             jo_diff_v == JoDiff(a.v_omf, g.v_omf, a.errinv)
             large_u == count_large + LargeInc(jo_diff_u)
             zero_u == count_zero + ZeroInc(jo_diff_u)
         IN  /\ ges' = g /\ anl' = a
             /\ tables' = NotedRow(g, a)
             /\ IF RetainConv(g, a, domain_str)
                THEN /\ jo_diffs' = jo_diffs \o <<jo_diff_u, jo_diff_v>>
                     /\ inv_obs_errors' = inv_obs_errors \o Twice(a.errinv)
                     /\ count_assim' = count_assim + 2
                     /\ sensor_lat' = sensor_lat \o Twice(a.latitude)
                     /\ sensor_lon' = sensor_lon \o Twice(a.longitude)
                     /\ sensor_press' = sensor_press \o Twice(a.pressure)
                     /\ sensor_obstype' = sensor_obstype \o Twice(a.obstype)
                     /\ count_large' = large_u + LargeInc(jo_diff_v)
                     /\ printed_large' =
                          printed_large + Printed(count_large, LargeInc(jo_diff_u))
                                        + Printed(large_u, LargeInc(jo_diff_v))
                     /\ count_zero' = zero_u + ZeroInc(jo_diff_v)
                     /\ printed_zero' =
                          printed_zero + Printed(count_zero, ZeroInc(jo_diff_u))
                                       + Printed(zero_u, ZeroInc(jo_diff_v))
                     /\ UNCHANGED list_channel
                ELSE UNCHANGED acc
    /\ i' = i + 1
    /\ UNCHANGED <<other, config, dirs, pc, err, ss, len_data, rows_read, finals, hist,
                   stat_lens, outputs>>

\* di_sate.py: one iteration; sensor_lat / sensor_lon hold list_latitude /
\* list_longitude
ObsSate ==
    /\ pc = "obs" /\ family = "sate" /\ i < len_data
    /\ \E g \in GesRows(family, i), a \in AnlRows(family, i) :
         LET jo_diff == JoDiff(a.omf, g.omf, a.errinv)
         IN  /\ ges' = g /\ anl' = a
             /\ tables' = NotedRow(g, a)
             /\ IF RetainSate(g, a, domain_str)
                THEN /\ count_assim' = count_assim + 1
                     /\ jo_diffs' = Append(jo_diffs, jo_diff)
                     /\ inv_obs_errors' = Append(inv_obs_errors, a.errinv)
                     /\ list_channel' = Append(list_channel, a.channel)
                     /\ sensor_lat' = Append(sensor_lat, a.latitude)
                     /\ sensor_lon' = Append(sensor_lon, a.longitude)
                     /\ count_large' = count_large + LargeInc(jo_diff)
                     /\ printed_large' =
                          printed_large + Printed(count_large, LargeInc(jo_diff))
                     /\ count_zero' = count_zero + ZeroInc(jo_diff)
                     /\ printed_zero' =
                          printed_zero + Printed(count_zero, ZeroInc(jo_diff))
                     /\ UNCHANGED <<sensor_press, sensor_obstype>>
                ELSE UNCHANGED acc
    /\ i' = i + 1
    /\ UNCHANGED <<other, config, dirs, pc, err, ss, len_data, rows_read, finals, hist,
                   stat_lens, outputs>>

(* ------------------------- per-sensor outputs --------------------------- *)
LoopEnded == pc = "obs" /\ i = len_data

\* the current sensor, if its loop appended a Jo-diff value
AssimNow == IF Len(jo_diffs) > 0 THEN {sensor} ELSE {}

\* mutant: the longitude list saved under "latitude" as well
DetailRecordLonTwice ==
    [sensor |-> sensor, jo_diff |-> jo_diffs, inv_obs_errors |-> inv_obs_errors,
     latitude |-> sensor_lon, longitude |-> sensor_lon,
     pressure |-> sensor_press, observation_type |-> sensor_obstype]

\* the detail record of di_conv.py / di_conv_uv.py
DetailRecord ==
    [sensor |-> sensor, jo_diff |-> jo_diffs, inv_obs_errors |-> inv_obs_errors,
     latitude |-> sensor_lat, longitude |-> sensor_lon,
     pressure |-> sensor_press, observation_type |-> sensor_obstype]

\* the channel-metadata list of di_sate.py
ChannelRecord ==
    [sensor |-> sensor, channel |-> list_channel,
     latitude |-> sensor_lat, longitude |-> sensor_lon]

\* the annotations of plot_jo_histogram
FigureRecord ==
    [sensor |-> sensor, total_obs |-> len_data, count_assim |-> count_assim,
     mean |-> NpMean(jo_diffs), sum |-> NpSum(jo_diffs),
     max_abs |-> NpMaxAbs(jo_diffs),
     count_large |-> count_large, count_zero |-> count_zero]

\* the side file written before the histogram, and the directory it needs
SideFileWritten ==
    /\ IF family = "sate"
       THEN /\ channel_files' = IF save_detail
                                THEN channel_files \cup {ChannelRecord}
                                ELSE channel_files
            /\ UNCHANGED detail_files
       ELSE /\ detail_files' = IF save_detail
                               THEN detail_files \cup {DetailRecord}
                               ELSE detail_files
            /\ UNCHANGED channel_files

DirsAfterSideFile ==
    IF family = "sate" /\ save_detail THEN dirs \cup {"pickle"} ELSE dirs

\* open(detail_file, "wb") with no pickle_detail directory
DetailDirMissing ==
    family # "sate" /\ save_detail /\ "pickle_detail" \notin dirs

\* no observation retained: nothing is written, the entries stay as they are
FinishEmpty ==
    /\ LoopEnded
    /\ ges' = NoRow /\ anl' = NoRow /\ ~HasAssim(count_assim)
    /\ ss' = ss + 1 /\ pc' = "sensor"
    /\ assim_sensors' = assim_sensors \cup AssimNow
    /\ UNCHANGED <<other, tables, config, dirs, err, i, len_data, rows_read, acc, finals,
                   ges_missing, warned, loaded, stat_lens, outputs>>

\* the detail record cannot be opened: the run ends
FinishDetailFail ==
    /\ LoopEnded
    /\ ges' = NoRow /\ anl' = NoRow /\ HasAssim(count_assim) /\ DetailDirMissing
    /\ pc' = "failed" /\ err' = "FileNotFoundError:pickle_detail"
    /\ assim_sensors' = assim_sensors \cup AssimNow
    /\ UNCHANGED <<other, tables, config, dirs, ss, i, len_data, rows_read, acc, finals,
                   ges_missing, warned, loaded, stat_lens, outputs>>

\* the side file is written, then plot_jo_histogram raises
FinishPlotFail ==
    /\ LoopEnded
    /\ ges' = NoRow /\ anl' = NoRow /\ HasAssim(count_assim) /\ ~DetailDirMissing
    /\ PlotRaises(jo_diffs)
    /\ SideFileWritten
    /\ dirs' = DirsAfterSideFile \cup {"figures"}
    /\ stat_lens' = stat_lens \cup {Len(jo_diffs)}
    /\ pc' = "failed" /\ err' = "ValueError:plot_jo_histogram"
    /\ assim_sensors' = assim_sensors \cup AssimNow
    /\ UNCHANGED <<other, tables, config, ss, i, len_data, rows_read, acc, finals, ges_missing,
                   warned, loaded, figures, legacy_pickle, n_saves>>

\* side file, histogram and the sensor's statistics
FinishSensor ==
    /\ LoopEnded
    /\ ges' = NoRow /\ anl' = NoRow /\ HasAssim(count_assim) /\ ~DetailDirMissing
    /\ ~PlotRaises(jo_diffs)
    /\ SideFileWritten
    /\ dirs' = DirsAfterSideFile \cup {"figures"}
    /\ figures' = figures \cup {FigureRecord}
    /\ stat_lens' = stat_lens \cup {Len(jo_diffs)}
    /\ final_total_size' =
         [final_total_size EXCEPT ![ss + 1] = Num(TotalSize(family, len_data))]
    /\ final_assim_size' = [final_assim_size EXCEPT ![ss + 1] = Num(count_assim)]
    /\ final_mean_jo_diff' = [final_mean_jo_diff EXCEPT ![ss + 1] = NpMean(jo_diffs)]
    /\ final_sum_jo_diff' = [final_sum_jo_diff EXCEPT ![ss + 1] = NpSum(jo_diffs)]
    /\ final_max_abs_jo_diff' =
         [final_max_abs_jo_diff EXCEPT ![ss + 1] = NpMaxAbs(jo_diffs)]
    /\ ss' = ss + 1 /\ pc' = "sensor"
    /\ assim_sensors' = assim_sensors \cup AssimNow
    /\ UNCHANGED <<other, tables, config, err, i, len_data, rows_read, acc, ges_missing, warned,
                   loaded, legacy_pickle, n_saves>>

(* ---------------------------- summary record ---------------------------- *)
\* mutant: total_size and assim_size exchanged
LegacyPickleSwapped(sensor_types, total_size, assim_size, mean_jo, sum_jo, max_abs_jo) ==
    <<sensor_types, assim_size, total_size, mean_jo, sum_jo, max_abs_jo>>

\* save_legacy_pickle: the 6-element list
LegacyPickle(sensor_types, total_size, assim_size, mean_jo, sum_jo, max_abs_jo) ==
    <<sensor_types, total_size, assim_size, mean_jo, sum_jo, max_abs_jo>>

\* mutant: the summary record written before the sensor loop has ended
SaveSummaryEarly ==
    /\ pc = "sensor"
    /\ dirs' = dirs \cup {"pickle"}
    /\ legacy_pickle' = LegacyPickle(SensorTypes(family), final_total_size,
                                     final_assim_size, final_mean_jo_diff,
                                     final_sum_jo_diff, final_max_abs_jo_diff)
    /\ n_saves' = n_saves + 1
    /\ pc' = "done"
    /\ UNCHANGED <<other, tables, config, err, ss, i, len_data, rows_read, ges, anl, acc,
                   finals, hist, stat_lens, figures, detail_files, channel_files>>

\* save_legacy_pickle(...) after the sensor loop
SaveSummary ==
    /\ pc = "sensor" /\ ss = n_sensor
    /\ dirs' = dirs \cup {"pickle"}
    /\ legacy_pickle' = LegacyPickle(SensorTypes(family), final_total_size,
                                     final_assim_size, final_mean_jo_diff,
                                     final_sum_jo_diff, final_max_abs_jo_diff)
    /\ n_saves' = n_saves + 1
    /\ pc' = "done"
    /\ UNCHANGED <<other, tables, config, err, ss, i, len_data, rows_read, ges, anl, acc,
                   finals, hist, stat_lens, figures, detail_files, channel_files>>

Next ==
    \/ SkipMissing
    \/ LoadMissingAnl
    \/ Load
    \/ ObsConv
    \/ ObsConvUv
    \/ ObsSate
    \/ FinishEmpty
    \/ FinishDetailFail
    \/ FinishPlotFail
    \/ FinishSensor
    \/ SaveSummary

Spec == Init /\ [][Next]_vars

\* the assimilated sentinel of a family, as the specification gives it
Sentinel(fam) == IF fam = "sate" THEN 0 ELSE 1

(* ------------------ one sensor with many classified values -------------- *)
\* the first sensor of a script under the default filter, its table long
\* enough to pass warn_sample_limit
WarnInit ==
    /\ RunInit /\ domain_str = "True" /\ ~save_detail
    /\ RerunIdle /\ BinsIdle /\ PostIdle /\ PlotIdle

\* rows of the long table (two values per row in analyze_conv_uv)
WarnRows == IF family = "conv_uv" THEN (MaxWarnVals + 1) \div 2 ELSE MaxWarnVals

WarnLoad == ss = 0 /\ LoadRows(WarnRows) /\ len_data' = WarnRows

\* the rows of the long table are assimilated ones with inverse error 0.5; from
\* the second row on their values are 0 or outliers
WarnRow(g, a, first) ==
    /\ g.flag = Num(Sentinel(family)) /\ a.flag = Num(Sentinel(family))
    /\ a.errinv = Rat(1, 2)
    /\ first \/ a.omf = Num(1)

WarnObsConv == ObsConv /\ WarnRow(ges', anl', i = 0)
WarnObsConvUv == ObsConvUv /\ WarnRow(ges', anl', i = 0)
WarnObsSate == ObsSate /\ WarnRow(ges', anl', i = 0)

WarnNext ==
    \/ WarnLoad
    \/ WarnObsConv
    \/ WarnObsConvUv
    \/ WarnObsSate
    \/ FinishSensor

WarnSpec == WarnInit /\ [][WarnNext]_vars

(* ------------------ a second run on the same diagnostics ---------------- *)
\* the first run keeps the diagnostics it reads
RerunInit ==
    /\ RunInit
    /\ recording = TRUE /\ tables = <<>> /\ run = 1 /\ prev = NoOutcome
    /\ BinsIdle /\ PostIdle /\ PlotIdle

\* in the second run the sensor's files are as the first run found them
Follows(status) ==
    run = 1 \/ (ss < Len(tables) /\ tables[ss + 1].status = status)

\* the rows of the diagnostics: assimilated flags on both sides, the guess
\* residuals 1, and the inverse error 0.5, 0 or NaN
RerunRow(g, a) ==
    /\ g.flag = Num(Sentinel(family)) /\ a.flag = Num(Sentinel(family))
    /\ g.omf = Num(1) /\ a.v_omf \in {Num(0), Num(1)}
    /\ a.errinv # Rat(1, 2) => a.omf = Num(1)

\* in the second run the row pair is the one the first run read at this index
SameRow(g, a) == run = 1 \/ <<g, a>> = tables[ss + 1].rows[i + 1]

ReSkipMissing == Follows("ges_missing") /\ SkipMissing
ReLoadMissingAnl == Follows("anl_missing") /\ LoadMissingAnl
ReLoad ==
    /\ Follows("ok") /\ Load
    /\ run = 1 \/ len_data' = Len(tables[ss + 1].rows)
ReObsConv == ObsConv /\ RerunRow(ges', anl') /\ SameRow(ges', anl')
ReObsConvUv == ObsConvUv /\ RerunRow(ges', anl') /\ SameRow(ges', anl')
ReObsSate == ObsSate /\ RerunRow(ges', anl') /\ SameRow(ges', anl')

\* the script is started again on the same diagnostics, in the working
\* directory as the first run left it; the files it writes replace those of
\* the first run
Rerun ==
    /\ run = 1 /\ pc \in {"done", "failed"}
    /\ run' = 2 /\ recording' = FALSE /\ prev' = Outcome
    /\ pc' = "sensor" /\ err' = "none"
    /\ ss' = 0 /\ i' = 0 /\ len_data' = 0 /\ rows_read' = 0
    /\ ges' = NoRow /\ anl' = NoRow
    /\ jo_diffs' = <<>> /\ inv_obs_errors' = <<>>
    /\ sensor_lat' = <<>> /\ sensor_lon' = <<>>
    /\ sensor_press' = <<>> /\ sensor_obstype' = <<>>
    /\ list_channel' = <<>>
    /\ count_assim' = 0 /\ count_large' = 0 /\ count_zero' = 0
    /\ printed_large' = 0 /\ printed_zero' = 0
    /\ final_total_size' = NpZeros(n_sensor)
    /\ final_assim_size' = NpZeros(n_sensor)
    /\ final_mean_jo_diff' = NpZeros(n_sensor)
    /\ final_sum_jo_diff' = NpZeros(n_sensor)
    /\ final_max_abs_jo_diff' = NpZeros(n_sensor)
    /\ ges_missing' = {} /\ warned' = {} /\ loaded' = {} /\ assim_sensors' = {}
    /\ stat_lens' = {}
    /\ figures' = {} /\ detail_files' = {} /\ channel_files' = {}
    /\ legacy_pickle' = <<>> /\ n_saves' = 0
    /\ UNCHANGED <<config, dirs, tables, binvars, postvars, plotvars>>

RerunNext ==
    \/ ReSkipMissing
    \/ ReLoadMissingAnl
    \/ ReLoad
    \/ ReObsConv
    \/ ReObsConvUv
    \/ ReObsSate
    \/ FinishEmpty
    \/ FinishDetailFail
    \/ FinishPlotFail
    \/ FinishSensor
    \/ SaveSummary
    \/ Rerun

RerunSpec == RerunInit /\ [][RerunNext]_vars

(* ------------------------ compute_bins on its own ----------------------- *)
\* the run state of a script that loads nothing: analyze_conv, default filter
RunIdle ==
    /\ RunInit /\ family = "conv" /\ domain_str = "True" /\ ~save_detail
    /\ RerunIdle

BinsInit ==
    /\ RunIdle /\ PostIdle /\ PlotIdle
    /\ bin_input \in Samples /\ bin_edges = NoBins

\* bins = compute_bins(jo_diffs)
ComputeBins ==
    /\ bin_edges = NoBins
    /\ bin_edges' = compute_bins(bin_input)
    /\ UNCHANGED <<runvars, rerun, postvars, plotvars, bin_input>>

BinsNext == ComputeBins

BinsSpec == BinsInit /\ [][BinsNext]_vars

(* ----------------- generate_data_impact_figures.py main ------------------ *)
\* the summary record of a label as its script writes it in a cycle of level v
SummaryFile(label, v) ==
    LegacyPickle(FullSensors(label),
                 FinalArray("total_size", label, v),
                 FinalArray("assim_size", label, v),
                 FinalArray("mean_jo", label, v),
                 FinalArray("sum_jo", label, v),
                 FinalArray("max_abs_jo", label, v))

\* (sensor_type, _, assim_size, mean_jo_diff, sum_jo_diff, _) = record
Destructure(rec) ==
    [sensor_type |-> rec[1], assim_size |-> rec[3],
     mean_jo_diff |-> rec[4], sum_jo_diff |-> rec[5]]

\* mutant: the vector value written to slot 0
ConvTotalFirst(conv, convuv) ==
    [k \in 1..len_conv_data |->
       IF k = 1 THEN convuv[Len(convuv)]
       ELSE IF k <= Len(conv) THEN conv[k] ELSE Num(0)]

\* x = np.zeros(len_conv_data); x[0:len(conv)] = conv; x[-1] = convuv[-1]
ConvTotal(conv, convuv) ==
    [k \in 1..len_conv_data |->
       IF k = len_conv_data THEN convuv[Len(convuv)]
       ELSE IF k <= Len(conv) THEN conv[k] ELSE Num(0)]

\* a[ir_index]
TakeIr(a) == [k \in 1..Len(ir_index) |-> a[ir_index[k]]]

\* a += b
AddTo(a, b) == [k \in 1..Len(a) |-> FAdd(a[k], b[k])]

\* a[0:len_sate_data] += sate; a[len_sate_data:] += conv
AddSplit(a, sate, conv) ==
    [k \in 1..Len(a) |->
       IF k <= len_sate_data THEN FAdd(a[k], sate[k])
       ELSE FAdd(a[k], conv[k - len_sate_data])]

\* a / b, elementwise; a / n with the scalar n
DivBy(a, b) == [k \in 1..Len(a) |-> FDiv(a[k], b[k])]
DivByScalar(a, n) == [k \in 1..Len(a) |-> FDiv(a[k], Num(n))]

PostInit ==
    /\ RunIdle /\ BinsIdle /\ PlotIdle
    /\ PostArrays
    /\ mode \in {"each", "total", "both"}
    /\ post_pc = "cycles"

\* a cycle with one of its three summary files missing: continue
SkipCycle ==
    /\ post_pc = "cycles" /\ cyc < Len(datestr_list)
    /\ \E present \in SUBSET Labels : present # Labels
    /\ cyc' = cyc + 1
    /\ UNCHANGED <<runvars, rerun, binvars, plotvars, mode, post_pc, post_err, processed,
                   sensor_type, conv_total_sum, conv_total_assim, alltime,
                   cycle_figs, total_fig>>

\* a cycle with its three summary files: read, plot, accumulate
ProcessCycle ==
    /\ post_pc = "cycles" /\ cyc < Len(datestr_list)
    /\ \E v \in CycleLevels :
         LET sate == Destructure(SummaryFile("sate", v))
             conv == Destructure(SummaryFile("conv", v))
             conv_uv == Destructure(SummaryFile("conv_uv", v))
             all_sensor_type ==
                 sate.sensor_type \o conv.sensor_type \o conv_uv.sensor_type
             total_sum ==
                 sate.sum_jo_diff \o conv.sum_jo_diff \o conv_uv.sum_jo_diff
             mean_jo_diff ==
                 sate.mean_jo_diff \o conv.mean_jo_diff \o conv_uv.mean_jo_diff
             assim_size ==
                 sate.assim_size \o conv.assim_size \o conv_uv.assim_size
             total_conv_sum == ConvTotal(conv.sum_jo_diff, conv_uv.sum_jo_diff)
             total_conv_assim == ConvTotal(conv.assim_size, conv_uv.assim_size)
         IN  /\ processed' = Append(processed, [cycle |-> datestr_list[cyc + 1],
                                                level |-> v])
             /\ sensor_type' = all_sensor_type
             /\ conv_total_sum' = total_conv_sum
             /\ conv_total_assim' = total_conv_assim
             /\ cycle_figs' =
                  IF mode \in {"each", "both"}
                  THEN cycle_figs \cup
                       {[datestr |-> datestr_list[cyc + 1],
                         all_sensor_type |-> all_sensor_type,
                         all_sum_jo_diff |-> total_sum,
                         all_mean_jo_diff |-> mean_jo_diff,
                         all_assim_size |-> assim_size,
                         sate_sum_jo_diff |-> sate.sum_jo_diff,
                         sate_ir_sum_jo_diff |-> TakeIr(sate.sum_jo_diff),
                         conv_sum_jo_diff |-> total_conv_sum,
                         sate_assim_size |-> sate.assim_size,
                         sate_ir_assim_size |-> TakeIr(sate.assim_size),
                         conv_assim_size |-> total_conv_assim]}
                  ELSE cycle_figs
             /\ alltime_sum_jo_diff' =
                  AddSplit(alltime_sum_jo_diff, sate.sum_jo_diff, total_conv_sum)
             /\ alltime_assim_size' =
                  AddSplit(alltime_assim_size, sate.assim_size, total_conv_assim)
             /\ alltime_sate_sum_jo_diff' =
                  AddTo(alltime_sate_sum_jo_diff, sate.sum_jo_diff)
             /\ alltime_sate_ir_sum_jo_diff' =
                  AddTo(alltime_sate_ir_sum_jo_diff, TakeIr(sate.sum_jo_diff))
             /\ alltime_conv_sum_jo_diff' =
                  AddTo(alltime_conv_sum_jo_diff, total_conv_sum)
             /\ alltime_sate_assim_size' =
                  AddTo(alltime_sate_assim_size, sate.assim_size)
             /\ alltime_sate_ir_assim_size' =
                  AddTo(alltime_sate_ir_assim_size, TakeIr(sate.assim_size))
             /\ alltime_conv_assim_size' =
                  AddTo(alltime_conv_assim_size, total_conv_assim)
    /\ cyc' = cyc + 1
    /\ UNCHANGED <<runvars, rerun, binvars, plotvars, mode, post_pc, post_err, total_fig>>

LoopDone == post_pc = "cycles" /\ cyc = Len(datestr_list)

\* mode "each": no total plot
FinishEach ==
    /\ LoopDone /\ mode \notin {"total", "both"}
    /\ post_pc' = "done"
    /\ UNCHANGED <<runvars, rerun, binvars, plotvars, mode, post_err, cyc, processed,
                   sensor_type, conv_total_sum, conv_total_assim, alltime,
                   cycle_figs, total_fig>>

\* plot_total_summary(case_str, len(datestr_list), sensor_type, ...) with
\* sensor_type never assigned: UnboundLocalError
PlotTotalUnbound ==
    /\ LoopDone /\ mode \in {"total", "both"}
    /\ processed = <<>>
    /\ post_pc' = "failed" /\ post_err' = "UnboundLocalError:sensor_type"
    /\ UNCHANGED <<runvars, rerun, binvars, plotvars, mode, cyc, processed, sensor_type,
                   conv_total_sum, conv_total_assim, alltime, cycle_figs,
                   total_fig>>

\* plot_total_summary: the three bar charts and the six averages of the title
PlotTotal ==
    /\ LoopDone /\ mode \in {"total", "both"}
    /\ processed # <<>>
    /\ LET datestr_len == Len(datestr_list)
       IN  total_fig' =
             <<[all_sensor_type |-> sensor_type,
                total_impact |-> DivByScalar(alltime_sum_jo_diff, datestr_len),
                impact_per_obs |-> DivBy(alltime_sum_jo_diff, alltime_assim_size),
                assim_per_cycle |-> DivByScalar(alltime_assim_size, datestr_len),
                avg_impact_mw |->
                  FDiv(FSub(NpSum(alltime_sate_sum_jo_diff),
                            NpSum(alltime_sate_ir_sum_jo_diff)), Num(datestr_len)),
                avg_impact_ir |->
                  FDiv(NpSum(alltime_sate_ir_sum_jo_diff), Num(datestr_len)),
                avg_impact_conv |->
                  FDiv(NpSum(alltime_conv_sum_jo_diff), Num(datestr_len)),
                avg_assim_mw |->
                  FDiv(FSub(NpSum(alltime_sate_assim_size),
                            NpSum(alltime_sate_ir_assim_size)), Num(datestr_len)),
                avg_assim_ir |->
                  FDiv(NpSum(alltime_sate_ir_assim_size), Num(datestr_len)),
                avg_assim_conv |->
                  FDiv(NpSum(alltime_conv_assim_size), Num(datestr_len))]>>
    /\ post_pc' = "done"
    /\ UNCHANGED <<runvars, rerun, binvars, plotvars, mode, post_err, cyc, processed,
                   sensor_type, conv_total_sum, conv_total_assim, alltime,
                   cycle_figs>>

PostNext ==
    \/ SkipCycle
    \/ ProcessCycle
    \/ FinishEach
    \/ PlotTotalUnbound
    \/ PlotTotal

PostSpec == PostInit /\ [][PostNext]_vars

(* -------------------- plot_conv_spatial_detail.py ----------------------- *)
\* most files the model puts in pickle_detail/
MaxFiles == 3

\* str(n) of a non-negative integer, as its decimal digits
RECURSIVE Str(_)
Str(n) == IF n < 10 THEN <<n>> ELSE Append(Str(n \div 10), n % 10)

\* int(s) of a digit string
RECURSIVE PyIntStr(_)
PyIntStr(s) ==
    IF Len(s) = 0 THEN 0
    ELSE PyIntStr(SubSeq(s, 1, Len(s) - 1)) * 10 + s[Len(s)]

\* f"{n:0{w}d}"
RECURSIVE ZeroPad(_, _)
ZeroPad(s, w) == IF Len(s) >= w THEN s ELSE ZeroPad(<<0>> \o s, w)

\* datetime.strptime(s, "%Y%m%d%H") of a ten-digit string
strptime(s) ==
    [year |-> PyIntStr(SubSeq(s, 1, 4)), month |-> PyIntStr(SubSeq(s, 5, 6)),
     day |-> PyIntStr(SubSeq(s, 7, 8)), hour |-> PyIntStr(SubSeq(s, 9, 10))]

\* dt.strftime("%Y%m%d%H")
strftime(dt) ==
    ZeroPad(Str(dt.year), 4) \o ZeroPad(Str(dt.month), 2)
      \o ZeroPad(Str(dt.day), 2) \o ZeroPad(Str(dt.hour), 2)

\* the proleptic Gregorian calendar of datetime
IsLeap(y) == (y % 4 = 0 /\ y % 100 # 0) \/ y % 400 = 0
DaysInMonth(y, m) ==
    IF m = 2 THEN (IF IsLeap(y) THEN 29 ELSE 28)
    ELSE IF m \in {4, 6, 9, 11} THEN 30 ELSE 31

\* dt + timedelta(hours=1)
PlusHour(dt) ==
    IF dt.hour < 23 THEN [dt EXCEPT !.hour = dt.hour + 1]
    ELSE IF dt.day < DaysInMonth(dt.year, dt.month)
         THEN [dt EXCEPT !.hour = 0, !.day = dt.day + 1]
    ELSE IF dt.month < 12
         THEN [dt EXCEPT !.hour = 0, !.day = 1, !.month = dt.month + 1]
    ELSE [dt EXCEPT !.hour = 0, !.day = 1, !.month = 1, !.year = dt.year + 1]

\* a < b, a <= b on datetimes
DtLess(a, b) ==
    \/ a.year < b.year
    \/ a.year = b.year /\ a.month < b.month
    \/ a.year = b.year /\ a.month = b.month /\ a.day < b.day
    \/ a.year = b.year /\ a.month = b.month /\ a.day = b.day /\ a.hour < b.hour
DtLeq(a, b) == a = b \/ DtLess(a, b)

\* mutant: `while dt < dt_end`
RECURSIVE CycleLoopExclusive(_, _, _)
CycleLoopExclusive(dt, dt_end, cycles) ==
    IF DtLess(dt, dt_end)
    THEN CycleLoopExclusive(PlusHour(dt), dt_end,
                            cycles \cup {PyIntStr(strftime(dt))})
    ELSE cycles

cycle_range_exclusive(start, end) ==
    CycleLoopExclusive(strptime(start), strptime(end), {})

\* while dt <= dt_end: cycles.add(int(dt.strftime(...))); dt += timedelta(hours=1)
RECURSIVE CycleLoop(_, _, _)
CycleLoop(dt, dt_end, cycles) ==
    IF DtLeq(dt, dt_end)
    THEN CycleLoop(PlusHour(dt), dt_end, cycles \cup {PyIntStr(strftime(dt))})
    ELSE cycles

cycle_range(start, end) == CycleLoop(strptime(start), strptime(end), {})

\* a detail file f"{cycle}_{sensor}_detail.pkl" of di_conv.py / di_conv_uv.py
DetailSensors == <<"conv_ps", "conv_t">>
DetailFile(cycle, k) == [cycle |-> cycle, sensor |-> DetailSensors[k]]

\* int(os.path.basename(fname).split("_")[0])
extract_cycle_from_filename(fname) == PyIntStr(fname.cycle)

\* the order of sorted() on the paths: by cycle digits, then by sensor name
SensorRank(f) == CHOOSE k \in 1..Len(DetailSensors) : DetailSensors[k] = f.sensor
PathLess(f, g) ==
    \/ PyIntStr(f.cycle) < PyIntStr(g.cycle)
    \/ f.cycle = g.cycle /\ SensorRank(f) < SensorRank(g)
RECURSIVE Sorted(_)
Sorted(S) ==
    IF S = {} THEN <<>>
    ELSE LET first == CHOOSE f \in S : \A g \in S \ {f} : PathLess(f, g)
         IN  <<first>> \o Sorted(S \ {first})

\* START_CYCLE / END_CYCLE on the command line: hours around the end of
\* February of a leap year
CycleArgs ==
    {Str(2024022823), Str(2024022900), Str(2024022923), Str(2024030100)}
\* cycles of the files in pickle_detail/: hours before, inside and after those
\* ranges, and ten-digit prefixes that name no hour (hour 24, 30 February)
DetailCycles ==
    {Str(2024022822), Str(2024022900), Str(2024022924), Str(2024023000),
     Str(2024030100)}
DetailFiles ==
    {DetailFile(c, k) : c \in DetailCycles, k \in 1..Len(DetailSensors)}

PlotInit ==
    /\ RunIdle /\ BinsIdle /\ PostIdle
    /\ HAS_CARTOPY \in BOOLEAN
    /\ start_cycle \in CycleArgs /\ end_cycle \in CycleArgs
    /\ pickle_detail \in {S \in SUBSET DetailFiles : Cardinality(S) <= MaxFiles}
    /\ plot_pc = "start"
    /\ valid_cycles = {} /\ pkl_files = <<>> /\ file_idx = 0 /\ count = 0
    /\ plotted = <<>>

\* main: the range, the sorted file list, and sys.exit(0) on an empty list
NoPklFiles ==
    /\ plot_pc = "start" /\ pickle_detail = {}
    /\ valid_cycles' = cycle_range(start_cycle, end_cycle)
    /\ pkl_files' = Sorted(pickle_detail)
    /\ plot_pc' = "exited"
    /\ UNCHANGED <<runvars, rerun, binvars, postvars, HAS_CARTOPY, start_cycle,
                   end_cycle, pickle_detail, file_idx, count, plotted>>

ListPklFiles ==
    /\ plot_pc = "start" /\ pickle_detail # {}
    /\ valid_cycles' = cycle_range(start_cycle, end_cycle)
    /\ pkl_files' = Sorted(pickle_detail)
    /\ plot_pc' = "files"
    /\ UNCHANGED <<runvars, rerun, binvars, postvars, HAS_CARTOPY, start_cycle,
                   end_cycle, pickle_detail, file_idx, count, plotted>>

pkl_path == pkl_files[file_idx + 1]

\* cycle not in valid_cycles: next file
PassFile ==
    /\ plot_pc = "files" /\ file_idx < Len(pkl_files)
    /\ extract_cycle_from_filename(pkl_path) \notin valid_cycles
    /\ file_idx' = file_idx + 1
    /\ UNCHANGED <<runvars, rerun, binvars, postvars, HAS_CARTOPY, start_cycle,
                   end_cycle, pickle_detail, plot_pc, valid_cycles, pkl_files,
                   count, plotted>>

\* plot_spatial_distribution(pkl_path, outdir); count += 1
PlotFile ==
    /\ plot_pc = "files" /\ file_idx < Len(pkl_files)
    /\ extract_cycle_from_filename(pkl_path) \in valid_cycles
    /\ HAS_CARTOPY
    /\ plotted' = Append(plotted, pkl_path)
    /\ count' = count + 1
    /\ file_idx' = file_idx + 1
    /\ UNCHANGED <<runvars, rerun, binvars, postvars, HAS_CARTOPY, start_cycle,
                   end_cycle, pickle_detail, plot_pc, valid_cycles, pkl_files>>

\* plot_spatial_distribution without cartopy: sys.exit("[ERROR] Cartopy is
\* required for this script. ...")
PlotFileNoCartopy ==
    /\ plot_pc = "files" /\ file_idx < Len(pkl_files)
    /\ extract_cycle_from_filename(pkl_path) \in valid_cycles
    /\ ~HAS_CARTOPY
    /\ plot_pc' = "failed"
    /\ UNCHANGED <<runvars, rerun, binvars, postvars, HAS_CARTOPY, start_cycle,
                   end_cycle, pickle_detail, valid_cycles, pkl_files, file_idx,
                   count, plotted>>

\* print(f"[INFO] Completed. Plotted {count} files.")
PlotCompleted ==
    /\ plot_pc = "files" /\ file_idx = Len(pkl_files)
    /\ plot_pc' = "done"
    /\ UNCHANGED <<runvars, rerun, binvars, postvars, HAS_CARTOPY, start_cycle,
                   end_cycle, pickle_detail, valid_cycles, pkl_files, file_idx,
                   count, plotted>>

PlotNext ==
    \/ NoPklFiles
    \/ ListPklFiles
    \/ PassFile
    \/ PlotFile
    \/ PlotFileNoCartopy
    \/ PlotCompleted

PlotSpec == PlotInit /\ [][PlotNext]_vars


(* ================================ claims ================================ *)
\* an iteration of the observation loop
ObsStep == pc = "obs" /\ i' = i + 1

\* (analysis_residual^2 - guess_residual^2) * inverse_error^2, on fractions
ExpectedJo(anl_res, ges_res, inv) ==
    IF anl_res.nan \/ ges_res.nan \/ inv.nan THEN NaN
    ELSE Rat((anl_res.num * anl_res.num * ges_res.den * ges_res.den
              - ges_res.num * ges_res.num * anl_res.den * anl_res.den)
             * inv.num * inv.num,
             anl_res.den * anl_res.den * ges_res.den * ges_res.den
             * inv.den * inv.den)

\* C1: every value an iteration appends to jo_diffs is
\* (analysis_residual^2 - guess_residual^2) * inverse_error^2 of the guess and
\* analysis rows read at that index: one value per record for conv and sate,
\* the u value then the v value for conv_uv; ges_omf = 1.0, anl_omf = 2.0,
\* inv_err = 0.5 gives 0.75.
C1_JoDiffFormula ==
    [][ (ObsStep /\ (jo_diffs' # jo_diffs \/ count_assim' # count_assim)) =>
          /\ ges'.channel = ChannelOf(i) /\ anl'.channel = ChannelOf(i)
          /\ jo_diffs' = jo_diffs \o
               (IF family = "conv_uv"
                THEN <<ExpectedJo(anl'.omf, ges'.omf, anl'.errinv),
                       ExpectedJo(anl'.v_omf, ges'.v_omf, anl'.errinv)>>
                ELSE <<ExpectedJo(anl'.omf, ges'.omf, anl'.errinv)>>)
          /\ (ges'.omf = Num(1) /\ anl'.omf = Num(2) /\ anl'.errinv = Rat(1, 2))
               => jo_diffs'[Len(jo_diffs) + 1] = [nan |-> FALSE, num |-> 3, den |-> 4]
      ]_vars

\* the example pair was read and retained: 0.75 is the last value of the list
C1_Witness ==
    /\ pc = "obs" /\ i >= 1 /\ count_assim >= 1
    /\ ges.omf = Num(1) /\ anl.omf = Num(2) /\ anl.errinv = Rat(1, 2)
    /\ jo_diffs[Len(jo_diffs) - (IF family = "conv_uv" THEN 1 ELSE 0)]
         = [nan |-> FALSE, num |-> 3, den |-> 4]

\* C2: an iteration changes a counter or a list only if the guess row's and the
\* analysis row's flag both equal the family's sentinel (1 for conv and
\* conv_uv, 0 for sate); a pair with another flag on either side changes
\* nothing.
C2_RetainedOnlyIfBothFlags ==
    [][ ObsStep =>
          \/ /\ ges'.flag = Num(Sentinel(family))
             /\ anl'.flag = Num(Sentinel(family))
          \/ UNCHANGED <<acc, finals, outputs>>
      ]_vars

\* two rows read by analyze_conv under the default filter: one was retained, and
\* the second, usable but for the analysis row's flag, was not
C2_Witness ==
    /\ family = "conv" /\ domain_str = "True" /\ pc = "obs" /\ i = 2
    /\ count_assim = 1 /\ sensor_obstype = <<ObsTypeOf(0)>>
    /\ ges.flag = Num(1) /\ anl.flag # Num(1) /\ anl.errinv = Rat(1, 2)

\* C3: (the claim) an observation whose inverse error is zero or NaN is
\* skipped in all three scripts: no zero and no NaN enters the inverse-error
\* list, and the assimilated count is the number of values appended.
C3_ZeroOrNaNSkipped ==
    /\ \A k \in 1..Len(inv_obs_errors) :
         ~IsNaN(inv_obs_errors[k]) /\ ~FEq(inv_obs_errors[k], Num(0))
    /\ count_assim = Len(jo_diffs) /\ count_assim = Len(inv_obs_errors)


\* the five numeric arrays of the summary record are its elements 2..6
NumericArrays == 2..6
Names == SensorTypes(family)
Written == n_saves > 0

\* C4: with the domain filter "False" the assimilated count is 0 throughout
\* every sensor's loop, no sensor retains anything, and the summary record
\* written holds 0 in each of the five numeric arrays at every index.
C4_DomainFalseAllZero ==
    domain_str = "False" =>
      /\ count_assim = 0 /\ jo_diffs = <<>> /\ assim_sensors = {}
      /\ Written => \A a \in NumericArrays : \A k \in 1..Len(Names) :
                      legacy_pickle[a][k] = Num(0)

\* a run under "False" that loaded two sensors with rows and wrote the record
C4_Witness ==
    /\ domain_str = "False" /\ pc = "done" /\ Written
    /\ Cardinality(loaded) = 2 /\ rows_read >= 2

Outliers == {k \in 1..Len(jo_diffs) : FGt(FAbs(jo_diffs[k]), Num(25))}
Zeros == {k \in 1..Len(jo_diffs) : FEq(jo_diffs[k], Num(0))}

\* C5: at every point of the observation loop and after it the outlier counter
\* counts the values with |value| > 25 and the zero counter the values equal to
\* 0, no value is in both classes, and the two counters together do not exceed
\* the number of retained values (count_assim).
C5_OutlierZeroExclusive ==
    /\ count_assim = Len(jo_diffs)
    /\ count_large = Cardinality(Outliers)
    /\ count_zero = Cardinality(Zeros)
    /\ Outliers \cap Zeros = {}
    /\ count_large + count_zero <= count_assim

\* a sensor with an outlier, a zero and a value in neither class
C5_Witness ==
    /\ pc = "obs" /\ count_large = 1 /\ count_zero = 1 /\ count_assim >= 3

\* C6: in analyze_conv_uv the assimilated count and the lengths of the six
\* per-observation lists are even after any number of iterations (two entries
\* per retained record, none per rejected one), and so are the arrays of every
\* detail record written.
C6_VectorCountsEven ==
    family = "conv_uv" =>
      /\ count_assim % 2 = 0 /\ count_assim <= 2 * i
      /\ \A n \in {Len(jo_diffs), Len(inv_obs_errors), Len(sensor_lat),
                   Len(sensor_lon), Len(sensor_press), Len(sensor_obstype)} :
           n % 2 = 0 /\ n = count_assim
      /\ \A d \in detail_files :
           \A n \in {Len(d.jo_diff), Len(d.inv_obs_errors), Len(d.latitude),
                     Len(d.longitude), Len(d.pressure),
                     Len(d.observation_type)} : n % 2 = 0

\* one record retained, one rejected, and the detail record written
C6_Witness ==
    /\ family = "conv_uv" /\ len_data = 2 /\ count_assim = 2
    /\ \E d \in detail_files : Len(d.jo_diff) = 2

\* C7: each numeric array of the summary record written has the length of the
\* script's sensor list, and its entry is 0 at the index of every sensor that
\* was skipped or retained no observation.
C7_SummaryShape ==
    /\ \A f \in {final_total_size, final_assim_size, final_mean_jo_diff,
                 final_sum_jo_diff, final_max_abs_jo_diff} : Len(f) = Len(Names)
    /\ Written =>
         /\ Len(legacy_pickle) = 6 /\ legacy_pickle[1] = Names
         /\ \A a \in NumericArrays :
              /\ Len(legacy_pickle[a]) = Len(legacy_pickle[1])
              /\ \A k \in 1..Len(Names) :
                   (Names[k] \in warned \/ Names[k] \notin assim_sensors)
                     => legacy_pickle[a][k] = Num(0)

\* a record written after one sensor was skipped and another, present, retained
\* nothing
C7_Witness ==
    /\ Written /\ warned # {} /\ loaded # {} /\ assim_sensors = {}
    /\ rows_read >= 1

\* C8: the sensors skipped with a warning are exactly those whose guess file is
\* absent; every other sensor reached is loaded and processed; no run ends at a
\* sensor whose guess file is absent; and the summary record written at the end
\* of the sensor loop holds 0 for the absent sensors and, for each present
\* sensor that retained an observation, its total size, assimilated count,
\* mean, sum and max-abs at its own index.
C8_MissingGuessSkipped ==
    /\ warned = ges_missing /\ warned \cap loaded = {}
    /\ \A k \in 1..ss : Names[k] \in warned \cup loaded
    /\ pc = "failed" => Names[ss + 1] \notin ges_missing
    /\ pc = "done" =>
         /\ Written /\ ss = Len(Names)
         /\ \A k \in 1..Len(Names) :
              /\ Names[k] \in warned =>
                   \A a \in NumericArrays : legacy_pickle[a][k] = Num(0)
              /\ Names[k] \in assim_sensors =>
                   \E f \in figures :
                     /\ f.sensor = Names[k]
                     /\ legacy_pickle[2][k] =
                          Num(IF family = "conv_uv" THEN 2 * f.total_obs
                              ELSE f.total_obs)
                     /\ legacy_pickle[3][k] = Num(f.count_assim)
                     /\ f.count_assim >= 1
                     /\ legacy_pickle[4][k] = f.mean
                     /\ legacy_pickle[5][k] = f.sum
                     /\ legacy_pickle[6][k] = f.max_abs

\* analyze_conv with the first sensor's guess file absent and the second sensor
\* present and populated
C8_Witness ==
    /\ family = "conv" /\ pc = "done"
    /\ warned = {Names[1]} /\ assim_sensors = {Names[2]}
    /\ legacy_pickle[3][2] = Num(2)

\* C9: (the claim) a missing analysis diagnostic file never ends the run.
C9_MissingAnlNeverTerminates ==
    ~(pc = "failed" /\ err = "FileNotFoundError:diag_anl")

\* C10: a sensor whose files are present and whose loop retained nothing gets
\* no histogram, no detail record and no channel-metadata file, no statistic is
\* computed over an empty list, its summary entries stay 0, and the run goes on
\* to the next sensor: the outputs stage never ends a run with nothing retained.
C10_EmptySensorNoOutput ==
    /\ 0 \notin stat_lens
    /\ err \in {"FileNotFoundError:pickle_detail", "ValueError:plot_jo_histogram"}
         => count_assim > 0
    /\ \A k \in 1..ss :
         (Names[k] \in loaded /\ Names[k] \notin assim_sensors) =>
           /\ \A f \in figures : f.sensor # Names[k]
           /\ \A d \in detail_files : d.sensor # Names[k]
           /\ \A c \in channel_files : c.sensor # Names[k]
           /\ \A f \in {final_total_size, final_assim_size, final_mean_jo_diff,
                        final_sum_jo_diff, final_max_abs_jo_diff} : f[k] = Num(0)
           /\ Written => \A a \in NumericArrays : legacy_pickle[a][k] = Num(0)

\* analyze_sate with channel output on: the first sensor's only row was
\* rejected, the run went on, the second sensor was populated, the record
\* written
C10_Witness ==
    /\ family = "sate" /\ save_detail /\ pc = "done"
    /\ loaded = {Names[1], Names[2]} /\ assim_sensors = {Names[2]}
    /\ rows_read = 2 /\ \E f \in figures : f.total_obs = 1

Returned == bin_edges # NoBins

\* C11: (the claim) compute_bins returns a non-empty, strictly increasing
\* sequence of bin edges for every input, without raising; in particular for a
\* non-empty sample whose values are all equal, where the width is 0.1.
C11_BinsNonEmptyIncreasing ==
    (Returned /\ \A k \in 1..Len(bin_input) : ~IsNaN(bin_input[k])) =>
      /\ ~bin_edges.raised
      /\ bin_edges.len >= 1
      /\ FGt(bin_edges.step_sq, Num(0))
      /\ (Len(bin_input) > 0 /\ NpMin(bin_input) = NpMax(bin_input))
           => bin_edges.step_sq = Rat(1, 100)

\* C12: for the empty sample compute_bins returns np.arange(-1, 1, 0.1): 20
\* edges, the first -1 (stop_sq = 1), the step 0.1 (step_sq = 1/100), the last
\* one below 1, and no statistic of the sample is evaluated.
C12_EmptyDefaultBins ==
    (Returned /\ Len(bin_input) = 0) =>
      /\ ~bin_edges.raised
      /\ bin_edges.len = 20
      /\ bin_edges.stop_sq = Num(1) /\ bin_edges.step_sq = Rat(1, 100)
      /\ bin_edges.stats = {}

\* compute_bins has returned for the empty sample
C12_Witness == Returned /\ bin_input = <<>> /\ bin_edges.len = 20

\* the sensor list and the arrays of one field, over the three labels in the
\* order sate, conv, conv_uv, as the scripts handed them to save_legacy_pickle
AllSensors == SateSensors \o ConvSensors \o ConvUvSensors
AllOf(field, v) ==
    FinalArray(field, "sate", v) \o FinalArray(field, "conv", v)
      \o FinalArray(field, "conv_uv", v)

\* the content level of a cycle that was read
LevelOf(datestr) ==
    processed[CHOOSE c \in 1..Len(processed) :
                processed[c].cycle = datestr].level
LastLevel == processed[Len(processed)].level

\* C13: every summary record is the 6-element list [sensor_types, total_size,
\* assim_size, mean_jo, sum_jo, max_abs_jo], and what the post-processor binds
\* by position is the field of that meaning for the three labels: its sensor
\* list is the scripts' sensor lists, its assimilated sizes, means and sums are
\* the arrays the scripts passed as assim_size, mean_jo and sum_jo.
C13_RecordOrderMatchesReader ==
    /\ \A l \in Labels : \A v \in CycleLevels :
         /\ Len(SummaryFile(l, v)) = 6
         /\ SummaryFile(l, v)[1] = FullSensors(l)
         /\ SummaryFile(l, v)[2] = FinalArray("total_size", l, v)
         /\ SummaryFile(l, v)[6] = FinalArray("max_abs_jo", l, v)
    /\ processed # <<>> =>
         /\ sensor_type = AllSensors
         /\ SubSeq(conv_total_assim, 1, Len(ConvSensors))
              = FinalArray("assim_size", "conv", LastLevel)
         /\ SubSeq(conv_total_sum, 1, Len(ConvSensors))
              = FinalArray("sum_jo", "conv", LastLevel)
    /\ \A f \in cycle_figs :
         /\ f.all_sensor_type = AllSensors
         /\ f.all_assim_size = AllOf("assim_size", LevelOf(f.datestr))
         /\ f.all_mean_jo_diff = AllOf("mean_jo", LevelOf(f.datestr))
         /\ f.all_sum_jo_diff = AllOf("sum_jo", LevelOf(f.datestr))

\* a per-cycle figure drawn from records with non-zero entries
C13_Witness ==
    \E f \in cycle_figs :
      /\ LevelOf(f.datestr) = 2
      /\ f.all_assim_size[1] # f.all_sum_jo_diff[1]

\* the value of sensor slot j (1..26) of a field in a cycle of level v
PerCycle(field, v, j) ==
    IF j <= Len(SateSensors) THEN FinalArray(field, "sate", v)[j]
    ELSE IF j <= Len(SateSensors) + Len(ConvSensors)
         THEN FinalArray(field, "conv", v)[j - Len(SateSensors)]
         ELSE FinalArray(field, "conv_uv", v)[1]

\* the sum of slot j over the first n cycles read
RECURSIVE SumOver(_, _, _)
SumOver(field, j, n) ==
    IF n = 0 THEN Num(0)
    ELSE FAdd(SumOver(field, j, n - 1), PerCycle(field, processed[n].level, j))

\* the 8-element conventional array of a cycle of level v
IsConvArray(a, field, v) ==
    /\ Len(a) = 8
    /\ \A k \in 1..7 : a[k] = FinalArray(field, "conv", v)[k]
    /\ a[8] = FinalArray(field, "conv_uv", v)[1]

\* C19: for every cycle read, the 8-element conventional array holds the 7
\* conventional-scalar values in slots 0..6 and the vector value in slot 7;
\* the 26-element running totals hold, in every slot, the sum over the cycles
\* read of that sensor's value: satellite in slots 0..17, the conventional
\* array in slots 18..25.
C19_SlotsAndRunningTotals ==
    /\ processed # <<>> =>
         /\ IsConvArray(conv_total_sum, "sum_jo", LastLevel)
         /\ IsConvArray(conv_total_assim, "assim_size", LastLevel)
    /\ \A f \in cycle_figs :
         /\ IsConvArray(f.conv_sum_jo_diff, "sum_jo", LevelOf(f.datestr))
         /\ IsConvArray(f.conv_assim_size, "assim_size", LevelOf(f.datestr))
    /\ Len(alltime_sum_jo_diff) = 26 /\ Len(alltime_assim_size) = 26
    /\ \A j \in 1..26 :
         /\ alltime_sum_jo_diff[j] = SumOver("sum_jo", j, Len(processed))
         /\ alltime_assim_size[j] = SumOver("assim_size", j, Len(processed))
    /\ \A k \in 1..8 :
         /\ alltime_conv_sum_jo_diff[k] = alltime_sum_jo_diff[18 + k]
         /\ alltime_conv_assim_size[k] = alltime_assim_size[18 + k]

\* two cycles of different non-zero levels were read and one was skipped
C19_Witness ==
    /\ Len(processed) = 2 /\ cyc = 3
    /\ processed[1].level = 1 /\ processed[2].level = 2
    /\ alltime_assim_size[26] = Num(3 * (3000 + 200 + 1))

\* C20: (the claim) the cycle-averaged chart shows each running total divided
\* by the number of cycles that were read; skipped cycles are not counted in
\* the divisor.
C20_AveragedOverProcessed ==
    Len(total_fig) > 0 =>
      \A j \in 1..26 :
        /\ total_fig[1].total_impact[j]
             = FDiv(alltime_sum_jo_diff[j], Num(Len(processed)))
        /\ total_fig[1].assim_per_cycle[j]
             = FDiv(alltime_assim_size[j], Num(Len(processed)))

\* C14: (the claim) every file an analysis script writes has its output
\* directory created before the write, so no write fails for want of its
\* directory: the histogram under figures, the summary record and the
\* channel-metadata file under pickle, the detail record under pickle_detail.
C14_DirectoryCreatedBeforeWrite ==
    /\ figures # {} => "figures" \in dirs
    /\ (Written \/ channel_files # {}) => "pickle" \in dirs
    /\ detail_files # {} => "pickle_detail" \in dirs
    /\ err # "FileNotFoundError:pickle_detail"

\* C15: (the claim) detail output is purely additive: a run with save_detail
\* enabled ends early only where the run with save_detail disabled ends early
\* on the same inputs (a missing analysis file, a histogram that raises), and
\* otherwise goes on to write the summary record, whether or not the detail
\* directory exists.
C15_DetailOutputAdditive ==
    (save_detail /\ family # "sate" /\ pc = "failed") =>
      \/ err = "FileNotFoundError:diag_anl"
      \/ PlotRaises(jo_diffs)

\* m copies of x
Rep(x, m) == [k \in 1..m |-> x]

\* C18: in analyze_conv and analyze_conv_uv every iteration appends to the six
\* per-observation lists the same number of entries (none, or one per retained
\* value), all taken from the analysis row just read, so after every iteration
\* the six lists have the length count_assim; and the detail record written
\* holds exactly these six lists, unchanged and in parallel.
C18_ParallelLists ==
    [][ family # "sate" =>
          /\ ObsStep =>
               LET m == count_assim' - count_assim
               IN  /\ m \in {0, IF family = "conv_uv" THEN 2 ELSE 1}
                   /\ Len(jo_diffs') = Len(jo_diffs) + m
                   /\ inv_obs_errors' = inv_obs_errors \o Rep(anl'.errinv, m)
                   /\ sensor_lat' = sensor_lat \o Rep(anl'.latitude, m)
                   /\ sensor_lon' = sensor_lon \o Rep(anl'.longitude, m)
                   /\ sensor_press' = sensor_press \o Rep(anl'.pressure, m)
                   /\ sensor_obstype' = sensor_obstype \o Rep(anl'.obstype, m)
                   /\ \A n \in {Len(jo_diffs'), Len(inv_obs_errors'),
                                Len(sensor_lat'), Len(sensor_lon'),
                                Len(sensor_press'), Len(sensor_obstype')} :
                        n = count_assim'
          /\ detail_files' # detail_files =>
               \E d \in detail_files' :
                 /\ detail_files' = detail_files \cup {d}
                 /\ d.sensor = sensor /\ count_assim >= 1
                 /\ d.jo_diff = jo_diffs /\ Len(d.jo_diff) = count_assim
                 /\ d.inv_obs_errors = inv_obs_errors
                 /\ d.latitude = sensor_lat /\ d.longitude = sensor_lon
                 /\ d.pressure = sensor_press
                 /\ d.observation_type = sensor_obstype
      ]_vars

\* analyze_conv retained two rows of a sensor and wrote its detail record
C18_Witness ==
    /\ family = "conv"
    /\ \E d \in detail_files :
         /\ Len(d.jo_diff) = 2
         /\ d.longitude = <<LonOf(0), LonOf(1)>>
         /\ d.latitude = <<LatOf(0), LatOf(1)>>
         /\ d.pressure = <<PressOf(0), PressOf(1)>>
         /\ d.observation_type = <<ObsTypeOf(0), ObsTypeOf(1)>>

\* C17: for each sensor at most 10 outlier warnings and at most 10 zero-value
\* warnings are printed: the n-th occurrence of a class is printed exactly if
\* n <= 10 (one limit per sensor and class, shared by u and v in
\* analyze_conv_uv), while the counters count every occurrence and every value
\* stays in the Jo-diff list that mean, sum and max-abs are taken over.
C17_WarningsBounded ==
    /\ printed_large = Min(count_large, 10) /\ printed_zero = Min(count_zero, 10)
    /\ count_large = Cardinality(Outliers) /\ count_zero = Cardinality(Zeros)
    /\ count_assim = Len(jo_diffs)
    /\ (pc = "sensor" /\ ss = 1 /\ Names[1] \in assim_sensors) =>
         /\ final_assim_size[1] = Num(Len(jo_diffs))
         /\ final_mean_jo_diff[1] = NpMean(jo_diffs)
         /\ final_sum_jo_diff[1] = NpSum(jo_diffs)
         /\ final_max_abs_jo_diff[1] = NpMaxAbs(jo_diffs)
         /\ \E f \in figures :
              f.count_large = count_large /\ f.count_zero = count_zero

\* a sensor with 11 outliers: 10 warnings printed, 11 counted, statistics over
\* all the values
C17_Witness ==
    /\ pc = "sensor" /\ ss = 1
    /\ count_large = 11 /\ printed_large = 10
    /\ final_assim_size[1] = Num(count_assim)

Ended == pc \in {"done", "failed"}

C21_TotalModesComplete ==
    /\ post_pc # "failed"
    /\ (post_pc = "done" /\ mode \in {"total", "both"}) => Len(total_fig) = 1

\* C23: (the claim) for every sensor that retained an observation, the
\* 'Total Obs Size' annotated on its histogram equals the total size stored
\* for it in the cycle's summary record, in the three analysis scripts alike.
C23_HistogramTotalIsSummaryTotal ==
    Written =>
      \A k \in 1..Len(Names) :
        Names[k] \in assim_sensors =>
          \E f \in figures :
            /\ f.sensor = Names[k]
            /\ legacy_pickle[2][k] = Num(f.total_obs)

\* the accumulators as the scripts initialise them for a sensor
FreshAcc == <<<<>>, <<>>, <<>>, <<>>, <<>>, <<>>, <<>>, 0, 0, 0, 0, 0>>

\* one step of a run of an analysis script, as C24 states it
C24_Step ==
    /\ ss' \in {ss, ss + 1}
    /\ ss' = ss + 1 => ss < n_sensor
    /\ loaded' # loaded =>
         /\ sensor \notin loaded \cup warned
         /\ loaded' = loaded \cup {sensor} /\ ss' = ss
    /\ warned' # warned =>
         /\ sensor \notin loaded \cup warned
         /\ warned' = warned \cup {sensor} /\ ss' = ss + 1
    /\ (pc = "sensor" /\ pc' = "obs") => acc' = FreshAcc
    /\ \A j \in 1..Len(finals), k \in 1..n_sensor :
         k # ss + 1 => finals'[j][k] = finals[j][k]
    /\ n_saves' # n_saves =>
         /\ n_saves = 0 /\ n_saves' = 1
         /\ pc = "sensor" /\ ss = n_sensor /\ pc' = "done"
         /\ UNCHANGED <<finals, figures, detail_files, channel_files>>
    /\ legacy_pickle' # legacy_pickle => n_saves' # n_saves
    /\ (figures' # figures \/ detail_files' # detail_files
          \/ channel_files' # channel_files) => n_saves' = 0
    /\ pc' = "done" =>
         /\ n_saves' = 1 /\ ss' = n_sensor
         /\ loaded' \cup warned' = {Names[k] : k \in 1..n_sensor}

\* C24: sensors are handled one at a time in the order of the sensor list and
\* each at most once; a sensor whose files are loaded starts from empty lists
\* and zero counts; the sensor at position k changes nothing but index k of
\* the five summary arrays; the summary record is written exactly once, when
\* the loop has passed the last sensor and after every histogram and side
\* file, and a run that ends without failing has written it, also when every
\* sensor was skipped.
C24_SequentialSensors == [][C24_Step]_vars

\* analyze_conv ended with two sensors that each retained an observation
C24_Witness ==
    /\ pc = "done" /\ n_saves = 1 /\ family = "conv"
    /\ Cardinality(assim_sensors) = 2 /\ Cardinality(figures) = 2
    /\ final_assim_size[1] = Num(1) /\ final_assim_size[2] = Num(1)

\* t is an hour of the calendar written as YYYYMMDDHH
IsHourStamp(t) ==
    LET y == t \div 1000000
        m == (t \div 10000) % 100
        d == (t \div 100) % 100
        h == t % 100
    IN  /\ y \in 1..9999 /\ m \in 1..12 /\ h \in 0..23
        /\ d >= 1
        /\ d <= (IF m = 2 THEN (IF y % 4 = 0 /\ (y % 100 # 0 \/ y % 400 = 0)
                                THEN 29 ELSE 28)
                 ELSE IF m \in {4, 6, 9, 11} THEN 30 ELSE 31)

\* the cycle at the start of the file's name is an hour between START_CYCLE
\* and END_CYCLE, both included
InCycleRange(f) ==
    LET t == PyIntStr(f.cycle)
    IN  /\ IsHourStamp(t)
        /\ PyIntStr(start_cycle) <= t /\ t <= PyIntStr(end_cycle)

TimesPlotted(f) == Cardinality({k \in 1..Len(plotted) : plotted[k] = f})

=============================================================================
